---- MODULE Spec2Model ----
(***************************************************************************)
(* bevy_prototype_lyon, src/shapes.rs: the shapes (Rectangle, Circle,      *)
(* Ellipse, Polygon, RegularPolygon, Line) and their Geometry              *)
(* implementations, which append path commands to a lyon path Builder.     *)
(*                                                                         *)
(* f32 values are modelled in fixed point: the integer v stands for the    *)
(* number v / Scale.  The builder is modelled by the sequence of add_*     *)
(* calls it has received.                                                  *)
(***************************************************************************)
EXTENDS Integers, Sequences, FiniteSets, TLC

VARIABLES shape, b, hist, locals

vars == <<shape, b, hist, locals>>

\* ------------------------------------------------------------------ bounds

\* The largest number of add_geometry calls in one run.
MaxCalls == 3
\* RegularPolygon.sides ranges over 0 .. MaxSides.
MaxSides == 8
\* f32 parameters range over k / 2 for k in -MaxK .. MaxK.
MaxK == 3
\* Polygon.points has at most MaxPts points.
MaxPts == 3

\* ------------------------------------------------------------------- f32

\* One unit of f32 in the fixed-point representation.
Scale == 10000
\* std::f32::consts::PI
PI == 31416

Neg(a) == 0 - a
\* n / d rounded to the nearest integer, for d > 0.
RDiv(n, d) == (n + d \div 2) \div d
\* f32 multiplication and division, rounded once.
FMul(p, q) == p * (q \div Scale) + RDiv(p * (q % Scale), Scale)
FDivPos(p, q) == (p \div q) * Scale + RDiv((p % q) * Scale, q)
FDiv(p, q) == IF q < 0 THEN FDivPos(0 - p, 0 - q) ELSE FDivPos(p, q)
\* `n as f32` for a usize n, and an f32 literal k.0
AsF32(n) == n * Scale
\* f32::mul_add(a, b, c): a * b + c with one rounding.
MulAdd(p, q, c) == FMul(p, q) + c

\* f32::sin: the argument reduced to [-PI, PI), folded to [-PI/2, PI/2],
\* then the odd polynomial x(1 - x^2/6(1 - x^2/20(1 - x^2/42(1 - x^2/72)))).
Wrap(x) == ((x + PI) % (2 * PI)) - PI
Fold(x) ==
  IF x > PI \div 2 THEN PI - x
  ELSE IF x < 0 - (PI \div 2) THEN 0 - PI - x
  ELSE x
SinPoly(x) ==
  LET x2 == FMul(x, x)
      t4 == Scale - x2 \div 72
      t3 == Scale - FMul(x2, t4) \div 42
      t2 == Scale - FMul(x2, t3) \div 20
      t1 == Scale - FMul(x2, t2) \div 6
  IN  FMul(x, t1)
Sin(x) == SinPoly(Fold(Wrap(x)))
Cos(x) == Sin(x + PI \div 2)
Tan(x) == FDiv(Sin(x), Cos(x))

\* ------------------------------------------------------------ point types

\* bevy::math::Vec2
Vec2(x, y) == [x |-> x, y |-> y]
\* lyon_tessellation::math::{Point, Size, Rect}
Point(x, y) == [x |-> x, y |-> y, unit |-> "UnknownUnit"]
Size(w, h) == [width |-> w, height |-> h]
Rect(origin, size) == [origin |-> origin, size |-> size]
\* utils::Convert for Vec2: the same coordinates in the builder's point type.
Convert(v) == Point(v.x, v.y)
\* lyon_tessellation::path::Polygon
LyonPolygon(points, closed) == [points |-> points, closed |-> closed]

\* ---------------------------------------------------------------- builder

\* The lyon Builder's calls used by the shapes; each is recorded as one
\* command at the end of the builder's sequence.
add_rectangle(bld, rect, winding) ==
  Append(bld, [op |-> "add_rectangle", rect |-> rect, winding |-> winding])
add_circle(bld, center, r, winding) ==
  Append(bld, [op |-> "add_circle", center |-> center, radius |-> r,
               winding |-> winding])
add_ellipse(bld, center, radii, x_rotation, winding) ==
  Append(bld, [op |-> "add_ellipse", center |-> center, radii |-> radii,
               x_rotation |-> x_rotation, winding |-> winding])
add_polygon(bld, polygon) ==
  Append(bld, [op |-> "add_polygon", polygon |-> polygon])

\* ----------------------------------------------------------------- shapes

Rectangle(w, h, o) ==
  [type |-> "Rectangle", width |-> w, height |-> h, origin |-> o]
Circle(r, c) == [type |-> "Circle", radius |-> r, center |-> c]
Ellipse(radii, c) == [type |-> "Ellipse", radii |-> radii, center |-> c]
Polygon(points, closed) ==
  [type |-> "Polygon", points |-> points, closed |-> closed]
RegularPolygon(sides, c, f) ==
  [type |-> "RegularPolygon", sides |-> sides, center |-> c, feature |-> f]
Line(p0, p1) == [type |-> "Line", p0 |-> p0, p1 |-> p1]

\* RectangleOrigin and RegularPolygonFeature
Origin(variant) == [variant |-> variant]
CustomCenter(v) == [variant |-> "CustomCenter", v |-> v]
Feature(variant, v) == [variant |-> variant, v |-> v]

\* The Default implementations.
RectangleDefault == Rectangle(AsF32(1), AsF32(1), Origin("Center"))
CircleDefault == Circle(AsF32(1), Vec2(0, 0))
EllipseDefault == Ellipse(Vec2(AsF32(1), AsF32(1)), Vec2(0, 0))
PolygonDefault == Polygon(<<>>, TRUE)
RegularPolygonDefault ==
  RegularPolygon(3, Vec2(0, 0), Feature("Radius", AsF32(1)))

\* ----------------------------------------------------------- add_geometry

\* A slip in the table: TopLeft takes the width where the height belongs.
RectangleOrigin_TopLeftByWidth(self) ==
  CASE self.origin.variant = "Center" ->
         Point(FDiv(Neg(self.width), AsF32(2)), FDiv(Neg(self.height), AsF32(2)))
    [] self.origin.variant = "BottomLeft" -> Point(0, 0)
    [] self.origin.variant = "BottomRight" -> Point(Neg(self.width), 0)
    [] self.origin.variant = "TopRight" ->
         Point(Neg(self.width), Neg(self.height))
    [] self.origin.variant = "TopLeft" -> Point(0, Neg(self.width))
    [] self.origin.variant = "CustomCenter" ->
         Point(self.origin.v.x - FDiv(self.width, AsF32(2)),
               self.origin.v.y - FDiv(self.height, AsF32(2)))
\* Rectangle::add_geometry: the match on self.origin
RectangleOrigin(self) ==
  CASE self.origin.variant = "Center" ->
         Point(FDiv(Neg(self.width), AsF32(2)), FDiv(Neg(self.height), AsF32(2)))
    [] self.origin.variant = "BottomLeft" -> Point(0, 0)
    [] self.origin.variant = "BottomRight" -> Point(Neg(self.width), 0)
    [] self.origin.variant = "TopRight" ->
         Point(Neg(self.width), Neg(self.height))
    [] self.origin.variant = "TopLeft" -> Point(0, Neg(self.height))
    [] self.origin.variant = "CustomCenter" ->
         Point(self.origin.v.x - FDiv(self.width, AsF32(2)),
               self.origin.v.y - FDiv(self.height, AsF32(2)))

Rectangle_add_geometry(self, bld) ==
  add_rectangle(bld,
                Rect(RectangleOrigin(self), Size(self.width, self.height)),
                "Positive")

Circle_add_geometry(self, bld) ==
  add_circle(bld, Convert(self.center), self.radius, "Positive")

\* The radii clamped at zero before they reach the builder.
Ellipse_add_geometry_Clamped(self, bld) ==
  add_ellipse(bld, Convert(self.center),
              Convert(Vec2(IF self.radii.x < 0 THEN 0 ELSE self.radii.x,
                           IF self.radii.y < 0 THEN 0 ELSE self.radii.y)),
              0, "Positive")
Ellipse_add_geometry(self, bld) ==
  add_ellipse(bld, Convert(self.center), Convert(self.radii), 0, "Positive")

\* An empty polygon skipped instead of passed on.
Polygon_add_geometry_SkipEmpty(self, bld) ==
  IF self.points = <<>> THEN bld
  ELSE add_polygon(bld,
                   LyonPolygon([i \in 1..Len(self.points) |->
                                  Convert(self.points[i])],
                               self.closed))
Polygon_add_geometry(self, bld) ==
  LET points == [i \in 1..Len(self.points) |-> Convert(self.points[i])]
  IN  add_polygon(bld, LyonPolygon(points, self.closed))

\* The line closed like the other polygons.
Line_add_geometry_Closed(self, bld) ==
  add_polygon(bld, LyonPolygon(<<Convert(self.p0), Convert(self.p1)>>, TRUE))
Line_add_geometry(self, bld) ==
  add_polygon(bld, LyonPolygon(<<Convert(self.p0), Convert(self.p1)>>, FALSE))

\* The side length divided by sin(ratio), without the factor 2.0.
radius_SideLengthNoTwo(self) ==
  LET ratio == FDiv(PI, AsF32(self.sides))
  IN  CASE self.feature.variant = "Radius" -> self.feature.v
        [] self.feature.variant = "Apothem" ->
             FDiv(FMul(self.feature.v, Tan(ratio)), Sin(ratio))
        [] self.feature.variant = "SideLength" ->
             FDiv(self.feature.v, Sin(ratio))
\* RegularPolygon::radius
radius(self) ==
  LET ratio == FDiv(PI, AsF32(self.sides))
  IN  CASE self.feature.variant = "Radius" -> self.feature.v
        [] self.feature.variant = "Apothem" ->
             FDiv(FMul(self.feature.v, Tan(ratio)), Sin(ratio))
        [] self.feature.variant = "SideLength" ->
             FDiv(self.feature.v, FMul(AsF32(2), Sin(ratio)))

\* The assertion off by one: triangles rejected.
SidesAssert_AboveThree(self) == self.sides > 3
\* assert!(self.sides > 2, ...)
SidesAssert(self) == self.sides > 2
\* let internal = (n - 2.0) * PI / n;
Internal(n) == FDiv(FMul(n - AsF32(2), PI), n)
\* The offset not halved.
Offset_NotHalved(n) == Neg(Internal(n))
\* let offset = -internal / 2.0;
Offset(n) == FDiv(Neg(Internal(n)), AsF32(2))
\* The step of half a turn over n.
Step_HalfTurn(n) == FDiv(PI, n)
\* let step = 2.0 * PI / n;
Step(n) == FDiv(FMul(AsF32(2), PI), n)
\* let cur_angle = (i as f32).mul_add(step, offset);
CurAngle(i, n) == MulAdd(AsF32(i), Step(n), Offset(n))
\* the body of the loop: point(x, y)
Vertex(self, r, i) ==
  LET cur_angle == CurAngle(i, AsF32(self.sides))
      x == MulAdd(r, Cos(cur_angle), self.center.x)
      y == MulAdd(r, Sin(cur_angle), self.center.y)
  IN  Point(x, y)
\* The loop one short: for i in 0..self.sides - 1
RegularPolygonPoints_OneShort(self) ==
  [k \in 1..(self.sides - 1) |-> Vertex(self, radius(self), k - 1)]
\* for i in 0..self.sides { ... points.push(point(x, y)); }
RegularPolygonPoints(self) ==
  [k \in 1..self.sides |-> Vertex(self, radius(self), k - 1)]
\* the locals of one emission
RegularPolygonLocals(self) ==
  [set |-> TRUE,
   n |-> AsF32(self.sides),
   radius |-> radius(self),
   offset |-> Offset(AsF32(self.sides)),
   step |-> Step(AsF32(self.sides)),
   angles |-> [k \in 1..self.sides |-> CurAngle(k - 1, AsF32(self.sides))]]
RegularPolygon_add_geometry(self, bld) ==
  add_polygon(bld, LyonPolygon(RegularPolygonPoints(self), TRUE))

\* ----------------------------------------------------------------- inputs

\* f32 parameter values: negative, zero and positive.
Vals == {k * (Scale \div 2) : k \in (0 - MaxK)..MaxK}
PosVals == {v \in Vals : v > 0}
Vecs == {Vec2(0, 0), Vec2(AsF32(1), Neg(Scale \div 2))}
Origins ==
  {Origin(o) : o \in {"Center", "BottomLeft", "BottomRight", "TopRight", "TopLeft"}}
    \cup {CustomCenter(v) : v \in Vecs}
PointSeqs == UNION {[1..n -> Vecs] : n \in 0..MaxPts}
\* The three features that describe the polygon of circumradius r.
FeaturesOf(sides, r) ==
  IF sides = 0 THEN {Feature("Radius", r)}
  ELSE LET ratio == FDiv(PI, AsF32(sides))
       IN  {Feature("Radius", r),
            Feature("Apothem", FMul(r, Cos(ratio))),
            Feature("SideLength", FMul(FMul(AsF32(2), r), Sin(ratio)))}
Features(sides) ==
  {Feature(f, v) : f \in {"Radius", "Apothem", "SideLength"}, v \in Vals}
    \cup UNION {FeaturesOf(sides, r) : r \in PosVals}

Rectangles == {Rectangle(w, h, o) : w \in Vals, h \in Vals, o \in Origins}
Circles == {Circle(r, c) : r \in Vals, c \in Vecs}
Ellipses == {Ellipse(Vec2(rx, ry), c) : rx \in Vals, ry \in Vals, c \in Vecs}
Polygons == {Polygon(p, closed) : p \in PointSeqs, closed \in BOOLEAN}
RegularPolygons ==
  UNION {{RegularPolygon(n, c, f) : c \in Vecs, f \in Features(n)} :
           n \in 0..MaxSides}
Lines == {Line(p, q) : p \in Vecs, q \in Vecs}
AllShapes ==
  Rectangles \cup Circles \cup Ellipses \cup Polygons \cup RegularPolygons
    \cup Lines

\* A few shapes of every type, for the runs that emit several shapes.
SomeShapes ==
  {RectangleDefault, CircleDefault, EllipseDefault, PolygonDefault,
   RegularPolygonDefault,
   Rectangle(AsF32(2), Neg(AsF32(1)), CustomCenter(Vec2(AsF32(1), 0))),
   Circle(0, Vec2(AsF32(1), Neg(Scale \div 2))),
   Polygon(<<Vec2(0, 0), Vec2(AsF32(1), 0), Vec2(0, 0)>>, FALSE),
   RegularPolygon(2, Vec2(0, 0), Feature("Radius", AsF32(1))),
   RegularPolygon(4, Vec2(AsF32(1), 0), Feature("Apothem", AsF32(1))),
   RegularPolygon(0, Vec2(0, 0), Feature("SideLength", AsF32(1))),
   RegularPolygon(1, Vec2(0, 0), Feature("Apothem", 0)),
   Line(Vec2(0, 0), Vec2(AsF32(1), AsF32(1))),
   Line(Vec2(0, 0), Vec2(0, 0))}

\* ------------------------------------------------------------- the system

NoLocals == [set |-> FALSE]
Call(outcome) == [shape |-> shape, outcome |-> outcome]

\* A caller constructs a shape value.
Construct ==
  /\ Len(hist) < MaxCalls
  /\ shape' \in SomeShapes
  /\ UNCHANGED <<b, hist, locals>>

RectangleAddGeometry ==
  /\ shape.type = "Rectangle"
  /\ Len(hist) < MaxCalls
  /\ b' = Rectangle_add_geometry(shape, b)
  /\ hist' = Append(hist, Call("ok"))
  /\ UNCHANGED <<shape, locals>>

CircleAddGeometry ==
  /\ shape.type = "Circle"
  /\ Len(hist) < MaxCalls
  /\ b' = Circle_add_geometry(shape, b)
  /\ hist' = Append(hist, Call("ok"))
  /\ UNCHANGED <<shape, locals>>

EllipseAddGeometry ==
  /\ shape.type = "Ellipse"
  /\ Len(hist) < MaxCalls
  /\ b' = Ellipse_add_geometry(shape, b)
  /\ hist' = Append(hist, Call("ok"))
  /\ UNCHANGED <<shape, locals>>

PolygonAddGeometry ==
  /\ shape.type = "Polygon"
  /\ Len(hist) < MaxCalls
  /\ b' = Polygon_add_geometry(shape, b)
  /\ hist' = Append(hist, Call("ok"))
  /\ UNCHANGED <<shape, locals>>

\* The assertion fails: the call panics before it touches the builder.
RegularPolygonPanic ==
  /\ shape.type = "RegularPolygon"
  /\ Len(hist) < MaxCalls
  /\ ~SidesAssert(shape)
  /\ hist' = Append(hist, Call("panic"))
  /\ UNCHANGED <<shape, b, locals>>

RegularPolygonAddGeometry ==
  /\ shape.type = "RegularPolygon"
  /\ Len(hist) < MaxCalls
  /\ SidesAssert(shape)
  /\ locals' = RegularPolygonLocals(shape)
  /\ b' = RegularPolygon_add_geometry(shape, b)
  /\ hist' = Append(hist, Call("ok"))
  /\ UNCHANGED shape

LineAddGeometry ==
  /\ shape.type = "Line"
  /\ Len(hist) < MaxCalls
  /\ b' = Line_add_geometry(shape, b)
  /\ hist' = Append(hist, Call("ok"))
  /\ UNCHANGED <<shape, locals>>

AddGeometry ==
  \/ RectangleAddGeometry
  \/ CircleAddGeometry
  \/ EllipseAddGeometry
  \/ PolygonAddGeometry
  \/ RegularPolygonPanic
  \/ RegularPolygonAddGeometry
  \/ LineAddGeometry

\* Shapes are constructed and emitted, one after the other, into one builder.
Init ==
  /\ shape \in SomeShapes
  /\ b = <<>>
  /\ hist = <<>>
  /\ locals = NoLocals
Next == Construct \/ AddGeometry
Spec == Init /\ [][Next]_vars

\* One shape, of any type and parameters, emitted (and emitted again) into a
\* builder that is fresh or already holds the default circle.
InitAny ==
  /\ shape \in AllShapes
  /\ \/ b = <<>> /\ hist = <<>>
     \/ /\ b = Circle_add_geometry(CircleDefault, <<>>)
        /\ hist = <<[shape |-> CircleDefault, outcome |-> "ok"]>>
  /\ locals = NoLocals
SpecAny == InitAny /\ [][AddGeometry]_vars

\* ----------------------------------------------------------------- claims

\* The number of successful calls among the first k.
OkCalls(k) == Cardinality({j \in 1..k : hist[j].outcome = "ok"})
\* Every successful call so far has left one command.
OneCommandPerCall == Len(b) = OkCalls(Len(hist))
\* The command left by call k, a successful one.
CmdOf(k) == b[OkCalls(k)]
IsOk(k) == hist[k].outcome = "ok"
\* A step that is a call of add_geometry.
IsCall == Len(hist') = Len(hist) + 1
Appended == Len(b') = Len(b) + 1 /\ SubSeq(b', 1, Len(b)) = b
\* The last call was a successful emission of a RegularPolygon, so that
\* locals holds its values and the builder ends with its command.
LastIsRegularPolygon ==
  /\ hist # <<>>
  /\ hist[Len(hist)].shape.type = "RegularPolygon"
  /\ hist[Len(hist)].outcome = "ok"
  /\ locals.set
  /\ b # <<>>
\* Two f32 values closer than Tol are equal "within tolerance".
Tol == Scale \div 500
Abs(a) == IF a < 0 THEN 0 - a ELSE a
Near(x, y) == Abs(x - y) <= Tol

\* C1: a RegularPolygon with sides < 3, whatever its feature and center,
\* panics and leaves the builder as it was; with sides = 3 the call succeeds
\* and appends an add_polygon command.
C1_SidesBelowThreePanic ==
  [][(IsCall /\ shape.type = "RegularPolygon") =>
       /\ shape.sides < 3 =>
            hist'[Len(hist')].outcome = "panic" /\ b' = b
       /\ shape.sides = 3 =>
            /\ hist'[Len(hist')].outcome = "ok"
            /\ Appended
            /\ b'[Len(b')].op = "add_polygon"]_vars
\* A polygon of 2 sides given by its apothem, off the origin, has panicked on
\* a builder that holds a command.
C1_Witness ==
  /\ Len(hist) = 2
  /\ hist[2].shape.type = "RegularPolygon"
  /\ hist[2].shape.sides = 2
  /\ hist[2].shape.feature.variant = "Apothem"
  /\ hist[2].shape.center # Vec2(0, 0)
  /\ hist[2].outcome = "panic"
  /\ Len(b) = 1

\* C2: a RegularPolygon with sides >= 3, whatever its feature and center,
\* appends exactly one add_polygon command, of `sides` points, closed.
C2_OnePolygonOfSidesVertices ==
  [][(IsCall /\ shape.type = "RegularPolygon" /\ shape.sides >= 3) =>
       /\ hist'[Len(hist')].outcome = "ok"
       /\ Appended
       /\ b'[Len(b')].op = "add_polygon"
       /\ Len(b'[Len(b')].polygon.points) = shape.sides
       /\ b'[Len(b')].polygon.closed = TRUE]_vars
C2_Witness ==
  /\ LastIsRegularPolygon
  /\ hist[Len(hist)].shape.sides = 5
  /\ hist[Len(hist)].shape.feature.variant = "SideLength"
  /\ Len(b[Len(b)].polygon.points) = 5
  /\ b[Len(b)].polygon.closed

\* The angle the claims give for vertex i of n: i * (2 PI / n) - ((n - 2) PI / n) / 2,
\* which is PI * (4 i - n + 2) / (2 n).
ClaimedAngle(i, n) == RDiv(PI * (4 * i - n + 2), 2 * n)
Degrees(a) == RDiv(a * 180, PI)
\* The cross product of v - c and w - c: positive when c, v, w turn
\* counter-clockwise.
Cross(c, v, w) ==
  FMul(v.x - c.x, w.y - c.y) - FMul(v.y - c.y, w.x - c.x)

\* C3: vertex i of a RegularPolygon with sides >= 3 lies at the angle
\* i * (2 PI / sides) - ((sides - 2) PI / sides) / 2 around the center; the
\* angles increase strictly from offset and span less than a full turn, the
\* traversal is counter-clockwise, and for sides = 4 the angles are -45, 45,
\* 135 and 225 degrees.
C3_VerticesInAngleOrder ==
  LastIsRegularPolygon =>
    LET self == hist[Len(hist)].shape
        n == self.sides
        pts == b[Len(b)].polygon.points
        a == locals.angles
    IN  /\ Len(pts) = n /\ Len(a) = n
        /\ \A i \in 0..(n - 1) :
             /\ Near(a[i + 1], ClaimedAngle(i, n))
             /\ Near(pts[i + 1].x,
                     self.center.x + FMul(locals.radius, Cos(ClaimedAngle(i, n))))
             /\ Near(pts[i + 1].y,
                     self.center.y + FMul(locals.radius, Sin(ClaimedAngle(i, n))))
        /\ a[1] = locals.offset
        /\ \A i \in 1..(n - 1) : a[i] < a[i + 1]
        /\ a[n] - a[1] < 2 * PI
        /\ \A i \in 1..n :
             LET c == Convert(self.center)
                 next == pts[(i % n) + 1]
             IN  IF locals.radius = 0 THEN Cross(c, pts[i], next) = 0
                 ELSE Cross(c, pts[i], next) > 0
        /\ n = 4 => [i \in 1..4 |-> Degrees(a[i])] = <<0 - 45, 45, 135, 225>>
\* The square of circumradius 1 about the origin has been emitted.
C3_Witness ==
  /\ LastIsRegularPolygon
  /\ hist[Len(hist)].shape =
       RegularPolygon(4, Vec2(0, 0), Feature("Radius", AsF32(1)))
  /\ Len(locals.angles) = 4
  /\ Degrees(locals.angles[1]) = 0 - 45
  /\ Degrees(locals.angles[4]) = 225
  /\ b[Len(b)].polygon.points[1].x > 0
  /\ b[Len(b)].polygon.points[1].y < 0

\* Twice the anchor the origin table gives: Center -> (-w/2, -h/2),
\* BottomLeft -> (0, 0), BottomRight -> (-w, 0), TopRight -> (-w, -h),
\* TopLeft -> (0, -h), CustomCenter(c) -> (c.x - w/2, c.y - h/2).
TwiceAnchor(w, h, o) ==
  CASE o.variant = "Center" -> <<0 - w, 0 - h>>
    [] o.variant = "BottomLeft" -> <<0, 0>>
    [] o.variant = "BottomRight" -> <<0 - 2 * w, 0>>
    [] o.variant = "TopRight" -> <<0 - 2 * w, 0 - 2 * h>>
    [] o.variant = "TopLeft" -> <<0, 0 - 2 * h>>
    [] o.variant = "CustomCenter" -> <<2 * o.v.x - w, 2 * o.v.y - h>>

\* C4: a Rectangle appends exactly one add_rectangle command, with positive
\* winding, its own width and height and the anchor of the origin table;
\* Center and CustomCenter((0, 0)) give the same anchor.
C4_RectangleAnchor ==
  /\ OneCommandPerCall
  /\ \A k \in 1..Len(hist) :
       hist[k].shape.type = "Rectangle" =>
         /\ IsOk(k)
         /\ LET self == hist[k].shape
                c == CmdOf(k)
            IN  /\ c.op = "add_rectangle"
                /\ c.winding = "Positive"
                /\ c.rect.size = Size(self.width, self.height)
                /\ <<2 * c.rect.origin.x, 2 * c.rect.origin.y>> =
                     TwiceAnchor(self.width, self.height, self.origin)
                /\ self.origin.variant = "Center" =>
                     c.rect.origin =
                       RectangleOrigin(Rectangle(self.width, self.height,
                                                 CustomCenter(Vec2(0, 0))))
\* A rectangle of negative width about a custom center has been emitted.
C4_Witness ==
  /\ Len(hist) = 1
  /\ hist[1].shape =
       Rectangle(0 - Scale \div 2, AsF32(1),
                 CustomCenter(Vec2(AsF32(1), 0 - Scale \div 2)))
  /\ Len(b) = 1
  /\ b[1].rect.origin = Point(12500, 0 - 10000)

\* C5: a Polygon and a Line each append exactly one add_polygon command
\* whose points are the shape's points, in order and number (also when
\* empty, also when equal); Polygon copies its closed flag, Line is open.
C5_PointsPreserved ==
  /\ OneCommandPerCall
  /\ \A k \in 1..Len(hist) :
       LET self == hist[k].shape
       IN  /\ self.type = "Polygon" =>
                /\ IsOk(k)
                /\ CmdOf(k).op = "add_polygon"
                /\ Len(CmdOf(k).polygon.points) = Len(self.points)
                /\ \A i \in 1..Len(self.points) :
                     /\ CmdOf(k).polygon.points[i].x = self.points[i].x
                     /\ CmdOf(k).polygon.points[i].y = self.points[i].y
                /\ CmdOf(k).polygon.closed = self.closed
           /\ self.type = "Line" =>
                /\ IsOk(k)
                /\ CmdOf(k).op = "add_polygon"
                /\ Len(CmdOf(k).polygon.points) = 2
                /\ CmdOf(k).polygon.points[1].x = self.p0.x
                /\ CmdOf(k).polygon.points[1].y = self.p0.y
                /\ CmdOf(k).polygon.points[2].x = self.p1.x
                /\ CmdOf(k).polygon.points[2].y = self.p1.y
                /\ CmdOf(k).polygon.closed = FALSE
\* An open polygon with a repeated point has been emitted.
C5_Witness ==
  /\ Len(hist) = 1
  /\ hist[1].shape.type = "Polygon"
  /\ Len(hist[1].shape.points) = 3
  /\ hist[1].shape.points[1] = hist[1].shape.points[2]
  /\ hist[1].shape.points[2] # hist[1].shape.points[3]
  /\ hist[1].shape.closed = FALSE
  /\ Len(b) = 1
  /\ Len(b[1].polygon.points) = 3
  /\ b[1].polygon.closed = FALSE

\* C7: non-positive parameters are neither rejected nor altered: a Rectangle
\* with a width or height <= 0, a Circle with radius <= 0, an Ellipse with a
\* radii component <= 0 and a RegularPolygon (sides >= 3) with a feature
\* value <= 0 each append exactly one command that carries the given values
\* (for the RegularPolygon, the radius derived from the given value), and
\* none panics.
C7_NonPositivePassThrough ==
  /\ OneCommandPerCall
  /\ \A k \in 1..Len(hist) :
       LET self == hist[k].shape
       IN  /\ (self.type = "Rectangle" /\ (self.width <= 0 \/ self.height <= 0)) =>
                /\ IsOk(k)
                /\ CmdOf(k).op = "add_rectangle"
                /\ CmdOf(k).rect.size.width = self.width
                /\ CmdOf(k).rect.size.height = self.height
           /\ (self.type = "Circle" /\ self.radius <= 0) =>
                /\ IsOk(k)
                /\ CmdOf(k).op = "add_circle"
                /\ CmdOf(k).radius = self.radius
           /\ (self.type = "Ellipse" /\ (self.radii.x <= 0 \/ self.radii.y <= 0)) =>
                /\ IsOk(k)
                /\ CmdOf(k).op = "add_ellipse"
                /\ CmdOf(k).radii.x = self.radii.x
                /\ CmdOf(k).radii.y = self.radii.y
           /\ (self.type = "RegularPolygon" /\ self.sides >= 3
                 /\ self.feature.v <= 0) =>
                /\ IsOk(k)
                /\ CmdOf(k).op = "add_polygon"
                /\ Len(CmdOf(k).polygon.points) = self.sides
  /\ (LastIsRegularPolygon /\ hist[Len(hist)].shape.feature.v <= 0) =>
       LET self == hist[Len(hist)].shape
           ratio == FDiv(PI, AsF32(self.sides))
           r == locals.radius
           p == b[Len(b)].polygon.points[1]
       IN  /\ r <= 0
           /\ self.feature.variant = "Radius" => r = self.feature.v
           /\ self.feature.variant = "Apothem" =>
                Near(FMul(r, Cos(ratio)), self.feature.v)
           /\ self.feature.variant = "SideLength" =>
                Near(FMul(FMul(AsF32(2), r), Sin(ratio)), self.feature.v)
           /\ Near(p.x, self.center.x + FMul(r, Cos(ClaimedAngle(0, self.sides))))
           /\ Near(p.y, self.center.y + FMul(r, Sin(ClaimedAngle(0, self.sides))))
\* An ellipse with radii (0, -1) has been emitted.
C7_Witness ==
  /\ Len(hist) = 1
  /\ hist[1].shape.type = "Ellipse"
  /\ hist[1].shape.radii = Vec2(0, 0 - AsF32(1))
  /\ hist[1].outcome = "ok"
  /\ Len(b) = 1
  /\ b[1].radii.x = 0
  /\ b[1].radii.y = 0 - AsF32(1)

\* C8: for sides >= 3 and r > 0 the radius derived from Radius(r), from
\* Apothem(r cos(PI / sides)) and from SideLength(2 r sin(PI / sides)) is r,
\* within tolerance.
C8_FeaturesAgree ==
  LastIsRegularPolygon =>
    LET self == hist[Len(hist)].shape
    IN  \A r \in PosVals :
          self.feature \in FeaturesOf(self.sides, r) => Near(locals.radius, r)
\* A heptagon given by the apothem of circumradius 1.5 has been emitted.
C8_Witness ==
  /\ LastIsRegularPolygon
  /\ hist[Len(hist)].shape.sides = 7
  /\ hist[Len(hist)].shape.feature.variant = "Apothem"
  /\ hist[Len(hist)].shape.feature \in FeaturesOf(7, 3 * (Scale \div 2))
  /\ Near(locals.radius, 3 * (Scale \div 2))

\* The first and the last vertex sit at the angles -PI/2 + PI/n and
\* -PI/2 - PI/n (mod 2 PI), mirror images about the vertical through the
\* center, at the same height.
FirstAndLastMirrored ==
  LET self == hist[Len(hist)].shape
      n == self.sides
      pts == b[Len(b)].polygon.points
      a == locals.angles
  IN  /\ Len(pts) = n /\ Len(a) = n
      /\ Near(a[1], RDiv(PI * (2 - n), 2 * n))
      /\ Near(Wrap(a[n] - RDiv(0 - PI * (n + 2), 2 * n)), 0)
      /\ Near(pts[1].y, pts[n].y)
      /\ Near(pts[1].x - self.center.x, 0 - (pts[n].x - self.center.x))
\* No vertex is lower than the first and the last one.
FirstAndLastLowest ==
  LET pts == b[Len(b)].polygon.points
  IN  \A i \in 1..Len(pts) :
        pts[1].y <= pts[i].y + Tol /\ pts[Len(pts)].y <= pts[i].y + Tol

\* C9 as stated: for every RegularPolygon with sides >= 3 the first and the
\* last vertex are mirrored about the vertical through the center and the
\* edge that joins them is the bottom edge, parallel to the x-axis.
C9_BottomEdgeAlways ==
  LastIsRegularPolygon => FirstAndLastMirrored /\ FirstAndLastLowest
\* C9 as amended: the first and the last vertex are mirrored about the
\* vertical through the center and their edge is parallel to the x-axis for
\* every RegularPolygon with sides >= 3; it is the bottom edge when the
\* feature value is positive.
C9_BottomEdgeWhenPositive ==
  LastIsRegularPolygon =>
    /\ FirstAndLastMirrored
    /\ hist[Len(hist)].shape.feature.v > 0 => FirstAndLastLowest
\* The default triangle: vertices 1 and 3 level, vertex 2 above them.
C9_Witness ==
  /\ LastIsRegularPolygon
  /\ hist[Len(hist)].shape = RegularPolygonDefault
  /\ Len(b[Len(b)].polygon.points) = 3
  /\ Near(b[Len(b)].polygon.points[1].y, b[Len(b)].polygon.points[3].y)
  /\ b[Len(b)].polygon.points[2].y > b[Len(b)].polygon.points[1].y + Tol
  /\ b[Len(b)].polygon.points[1].x > b[Len(b)].polygon.points[3].x + Tol

\* The op a shape of each type leaves in the builder.
OpOf(type) ==
  CASE type = "Rectangle" -> "add_rectangle"
    [] type = "Circle" -> "add_circle"
    [] type = "Ellipse" -> "add_ellipse"
    [] type \in {"Polygon", "RegularPolygon", "Line"} -> "add_polygon"

\* C10: a call of add_geometry only appends: a successful call keeps the
\* commands the builder held as a prefix, adds exactly one command at the
\* end and leaves the shape as it was; a panicking call leaves the builder
\* as it was.  So the builder holds one command per successful call, in the
\* order of the calls.
C10_OnlyAppends ==
  [][/\ IsCall =>
          /\ shape' = shape
          /\ hist'[Len(hist')].shape = shape
          /\ SubSeq(hist', 1, Len(hist)) = hist
          /\ hist'[Len(hist')].outcome = "ok" => Appended
          /\ hist'[Len(hist')].outcome = "panic" => b' = b
     /\ ~IsCall => b' = b
     /\ OneCommandPerCall'
     /\ \A k \in 1..Len(hist') :
          hist'[k].outcome = "ok" =>
            /\ Cardinality({j \in 1..k : hist'[j].outcome = "ok"}) <= Len(b')
            /\ b'[Cardinality({j \in 1..k : hist'[j].outcome = "ok"})].op =
                 OpOf(hist'[k].shape.type)]_vars
\* A line, then a panicking polygon, then a rectangle: two commands.
C10_Witness ==
  /\ Len(hist) = 3
  /\ hist[1].shape.type = "Line" /\ hist[1].outcome = "ok"
  /\ hist[2].shape.type = "RegularPolygon" /\ hist[2].outcome = "panic"
  /\ hist[3].shape.type = "Rectangle" /\ hist[3].outcome = "ok"
  /\ Len(b) = 2
  /\ b[1].op = "add_polygon"
  /\ b[2].op = "add_rectangle"

====
